---- MODULE Spec2Model ----
(***************************************************************************)
(* Model of src/main.py: a FastAPI application over two SQLite tables,     *)
(* border(id) and task(id, text, owner_id).  Every route handler is a      *)
(* pure operator from (store, request) to (response, store); the           *)
(* specification Spec runs the handlers one request after another.         *)
(***************************************************************************)
EXTENDS Integers, Sequences, FiniteSets, TLC

\* ------------------------------------------------------------------ bounds
\* Largest border id / task id the model lets the store hand out.
MaxBorders == 2
MaxTasks == 2

\* Query(le=100) on read_borders' limit.
MaxLimit == 100

\* ------------------------------------------------------------------ values
\* SQL NULL / Python None for Task.text.
NULL == "NULL"
Texts == {"a", "b"}
TextValues == Texts \cup {NULL}

\* Path parameters: the ids a row can have.
BorderIds == 1 .. MaxBorders
TaskIds == 1 .. MaxTasks

\* TaskUpdate bodies: pydantic records which fields the client sent
\* (fields_set); an omitted text keeps its default None.
TaskUpdate == [text : TextValues, fields_set : {{"text"}}]
                 \cup [text : {NULL}, fields_set : {{}}]

\* BorderCreate bodies: the tasks field is optional and may carry tasks.
BorderCreate == { [tasks |-> <<>>],
                  [tasks |-> <<[id |-> 1, text |-> "a", owner_id |-> 1]>>] }

\* TaskCreate has no fields.
TaskCreate == { [fields_set |-> {}] }

\* Query parameters of read_borders.
Offsets == {-1, 0, 1}
Limits == {-1, 1, MaxLimit, MaxLimit + 1}

\* Requests served at the same time, each by its own worker thread.
Requests == {"r1", "r2"}

\* The bodies and query parameters the concurrent requests carry.
ConcTaskUpdate == { [text |-> "a", fields_set |-> {"text"}],
                    [text |-> NULL, fields_set |-> {}] }
ConcLimits == {MaxLimit, MaxLimit + 1}

\* The ids the concurrent requests name in their paths.
ConcBorderIds == {1}
ConcTaskIds == {1}

VARIABLES border, task, everBorder, everTask, added, last, req, sessions

vars == <<border, task, everBorder, everTask, added, last, req, sessions>>

\* What the one-request-at-a-time runs record, and what the concurrent
\* requests add.
seqVars == <<everBorder, everTask, added, last>>
concVars == <<req, sessions>>

\* The store as the handlers see it through a session.
DB == [border |-> border, task |-> task]

\* ------------------------------------------------------------------ store
Max(S) == CHOOSE x \in S : \A y \in S : y <= x
Min(S) == CHOOSE x \in S : \A y \in S : x <= y

\* INTEGER PRIMARY KEY without AUTOINCREMENT: SQLite gives a new row the
\* largest rowid in the table plus one (1 in an empty table).
NextId(ids) == IF ids = {} THEN 1 ELSE Max(ids) + 1

RECURSIVE SortedSeq(_)
SortedSeq(S) == IF S = {} THEN <<>>
                ELSE LET m == Min(S) IN <<m>> \o SortedSeq(S \ {m})

\* A Task object loaded from its row.
TaskObj(db, t) == [id |-> t, text |-> db.task[t].text, owner_id |-> db.task[t].owner_id]

\* Border.tasks: the relationship's lazy load, SELECT ... WHERE owner_id = b.
Tasks(db, b) ==
    LET own == {t \in DOMAIN db.task : db.task[t].owner_id = b}
        ids == SortedSeq(own)
    IN [i \in 1 .. Len(ids) |-> TaskObj(db, ids[i])]

\* The BorderPublic response shape.
BorderPublic(db, b) == [id |-> b, tasks |-> Tasks(db, b)]

\* session.get(Model, id): the row, or None.
GetBorder(db, b) == b \in db.border
GetTask(db, t) == t \in DOMAIN db.task

InsertTask(db, t, row) ==
    [db EXCEPT !.task = [x \in DOMAIN db.task \cup {t} |->
                            IF x = t THEN row ELSE db.task[x]]]

DeleteTasks(db, ts) ==
    [db EXCEPT !.task = [x \in DOMAIN db.task \ ts |-> db.task[x]]]

\* ------------------------------------------------------------------ responses
Ok(body, db) == [status |-> 200, detail |-> "", body |-> body, db |-> db]
HTTPException(code, detail, db) ==
    [status |-> code, detail |-> detail, body |-> <<>>, db |-> db]

\* ------------------------------------------------------------------ handlers
create_border(db, body) ==
    LET id == NextId(db.border)
        db2 == [db EXCEPT !.border = db.border \cup {id}]
    IN Ok(BorderPublic(db2, id), db2)

\* Mutant: the border's task list is answered as loaded before the insert.
add_task_to_border_stale(db, border_id, body) ==
    IF ~GetBorder(db, border_id)
    THEN HTTPException(404, "Border not found", db)
    ELSE LET id == NextId(DOMAIN db.task)
             db2 == InsertTask(db, id, [text |-> NULL, owner_id |-> border_id])
         IN Ok(Tasks(db, border_id), db2)

add_task_to_border(db, border_id, body) ==
    IF ~GetBorder(db, border_id)
    THEN HTTPException(404, "Border not found", db)
    ELSE LET id == NextId(DOMAIN db.task)
             db2 == InsertTask(db, id, [text |-> NULL, owner_id |-> border_id])
         IN Ok(Tasks(db2, border_id), db2)

\* SELECT ... LIMIT limit OFFSET offset over the border table in rowid
\* order.  SQLite reads a negative OFFSET as 0 and a negative LIMIT as no
\* limit.
SelectBorders(db, offset, limit) ==
    LET all == SortedSeq(db.border)
        off == IF offset < 0 THEN 0 ELSE offset
        lim == IF limit < 0 THEN Len(all) ELSE limit
        hi == IF off + lim > Len(all) THEN Len(all) ELSE off + lim
    IN [i \in 1 .. (IF hi > off THEN hi - off ELSE 0) |-> all[off + i]]

read_borders(db, offset, limit) ==
    IF limit > MaxLimit
    THEN HTTPException(422, "Input should be less than or equal to 100", db)
    ELSE LET ids == SelectBorders(db, offset, limit)
         IN Ok([i \in 1 .. Len(ids) |-> BorderPublic(db, ids[i])], db)

read_border(db, border_id) ==
    IF ~GetBorder(db, border_id)
    THEN HTTPException(404, "Border not found", db)
    ELSE Ok(BorderPublic(db, border_id), db)

\* Mutant: model_dump() without exclude_unset, so an omitted text
\* overwrites with its default.
SqlmodelUpdate_all_fields(row, task_update) ==
    [row EXCEPT !.text = task_update.text]

\* task_update.model_dump(exclude_unset=True) then task.sqlmodel_update.
SqlmodelUpdate(row, task_update) ==
    IF "text" \in task_update.fields_set
    THEN [row EXCEPT !.text = task_update.text]
    ELSE row

\* Mutant: the task's owner is not compared with the border in the path.
update_task_any_owner(db, border_id, task_id, task_update) ==
    IF ~GetBorder(db, border_id)
    THEN HTTPException(404, "Border not found", db)
    ELSE IF ~GetTask(db, task_id)
    THEN HTTPException(404, "Task not found", db)
    ELSE LET db2 == [db EXCEPT !.task[task_id] =
                          [db.task[task_id] EXCEPT !.text =
                              IF "text" \in task_update.fields_set
                              THEN task_update.text ELSE @]]
         IN Ok(TaskObj(db2, task_id), db2)

update_task(db, border_id, task_id, task_update) ==
    IF ~GetBorder(db, border_id)
    THEN HTTPException(404, "Border not found", db)
    ELSE IF ~GetTask(db, task_id) \/ db.task[task_id].owner_id # border_id
    THEN HTTPException(404, "Task not found", db)
    ELSE LET db2 == [db EXCEPT !.task[task_id] =
                          SqlmodelUpdate(db.task[task_id], task_update)]
         IN Ok(TaskObj(db2, task_id), db2)

\* Mutant: the border's tasks are not deleted before the border.
delete_border_no_cascade(db, border_id) ==
    IF ~GetBorder(db, border_id)
    THEN HTTPException(404, "Border not found", db)
    ELSE Ok([ok |-> TRUE], [db EXCEPT !.border = db.border \ {border_id}])

\* Mutant: the border's tasks are deleted and the border row is kept.
delete_border_keeps_row(db, border_id) ==
    IF ~GetBorder(db, border_id)
    THEN HTTPException(404, "Border not found", db)
    ELSE LET tasks == Tasks(db, border_id)
         IN Ok([ok |-> TRUE],
               DeleteTasks(db, {tasks[i].id : i \in 1 .. Len(tasks)}))

delete_border(db, border_id) ==
    IF ~GetBorder(db, border_id)
    THEN HTTPException(404, "Border not found", db)
    ELSE LET tasks == Tasks(db, border_id)
             db2 == DeleteTasks(db, {tasks[i].id : i \in 1 .. Len(tasks)})
             db3 == [db2 EXCEPT !.border = db2.border \ {border_id}]
         IN Ok([ok |-> TRUE], db3)

\* Mutant: every task of the border is deleted, not only the one named.
delete_task_whole_border(db, border_id, task_id) ==
    IF ~GetBorder(db, border_id)
    THEN HTTPException(404, "Border not found", db)
    ELSE IF ~GetTask(db, task_id) \/ db.task[task_id].owner_id # border_id
    THEN HTTPException(404, "Task not found", db)
    ELSE Ok([ok |-> TRUE],
            DeleteTasks(db, {t \in DOMAIN db.task : db.task[t].owner_id = border_id}))

delete_task(db, border_id, task_id) ==
    IF ~GetBorder(db, border_id)
    THEN HTTPException(404, "Border not found", db)
    ELSE IF ~GetTask(db, task_id) \/ db.task[task_id].owner_id # border_id
    THEN HTTPException(404, "Task not found", db)
    ELSE Ok([ok |-> TRUE], DeleteTasks(db, {task_id}))

\* ------------------------------------------------------------------ history
\* added[b]: how many tasks were added to border b since it was created,
\* or Untracked once one of its tasks was updated or deleted (or b does not
\* exist).
Untracked == 0 - 1

Bump(n) == IF n = Untracked THEN Untracked ELSE n + 1

NoBody == [text |-> NULL, fields_set |-> {}]

\* The request served last: the handler and the status it answered; of a
\* request that succeeded also the border it changed (create_border,
\* add_task_to_border, delete_border), the task it changed and the body it
\* carried (update_task, delete_task) and the ids of the tasks the border
\* owned when the request arrived (delete_border); of a refused update_task
\* or delete_task whether the task named exists under another border than
\* the existing one named.
Done(op, r, border_id, task_id, body, former, foreign) ==
    IF r.status = 200
    THEN [op |-> op, status |-> 200, border_id |-> border_id,
          task_id |-> task_id, body |-> body, former |-> former,
          foreign |-> FALSE]
    ELSE [op |-> op, status |-> r.status, border_id |-> 0, task_id |-> 0,
          body |-> NoBody, former |-> {}, foreign |-> foreign]

\* Task t exists and belongs to another border than the existing border b.
Foreign(db, b, t) ==
    /\ b \in db.border
    /\ t \in DOMAIN db.task
    /\ db.task[t].owner_id # b

OwnedIds(db, b) == {t \in DOMAIN db.task : db.task[t].owner_id = b}

\* ------------------------------------------------------------------ sessions
\* Session objects are told apart by an id; one per request can be live.
SessionIds == 1 .. Cardinality(Requests)

\* A request slot with no request in it; status is how the request it
\* served last ended.
Idle == [pc |-> "idle", op |-> "none", border_id |-> 0, task_id |-> 0,
         body |-> NoBody, dirty |-> FALSE, tasks |-> {}, sid |-> 0,
         status |-> 0]

\* Ids no live session has.
FreeSessions(r) == SessionIds \ sessions

\* get_session up to its yield: Session(engine) is a new object per call.
get_session(r) == Min(FreeSessions(r))

\* Mutant: session.close() after the yield without with/try-finally, so an
\* exception thrown into the generator skips it.
SessionExit_skipped_on_raise(open, sid, pc) ==
    IF pc = "raise" THEN open ELSE open \ {sid}

\* get_session after its yield: the with block closes the session however
\* the handler ended.
SessionExit(open, sid, pc) == open \ {sid}

\* ------------------------------------------------------------------ requests
Init ==
    /\ border = {}
    /\ task = <<>>
    /\ everBorder = {}
    /\ everTask = {}
    /\ added = [b \in 1 .. MaxBorders |-> Untracked]
    /\ last = [op |-> "startup", status |-> 0, border_id |-> 0,
               task_id |-> 0, body |-> NoBody, former |-> {},
               foreign |-> FALSE]
    /\ req = [r \in Requests |-> Idle]
    /\ sessions = {}

Commit(r) ==
    /\ border' = r.db.border
    /\ task' = r.db.task

CreateBorder ==
    \E body \in BorderCreate :
        LET r == create_border(DB, body) IN
        /\ r.body.id <= MaxBorders
        /\ Commit(r)
        /\ everBorder' = everBorder \cup {r.body.id}
        /\ added' = [added EXCEPT ![r.body.id] = 0]
        /\ last' = Done("create_border", r, r.body.id, 0, NoBody, {}, FALSE)
        /\ UNCHANGED everTask
        /\ UNCHANGED concVars

AddTask ==
    \E border_id \in BorderIds, body \in TaskCreate :
        LET r == add_task_to_border(DB, border_id, body) IN
        /\ DOMAIN r.db.task \subseteq 1 .. MaxTasks
        /\ Commit(r)
        /\ everTask' = everTask \cup DOMAIN r.db.task
        /\ added' = IF r.status = 200
                    THEN [added EXCEPT ![border_id] = Bump(@)]
                    ELSE added
        /\ last' = Done("add_task_to_border", r, border_id, 0, NoBody, {}, FALSE)
        /\ UNCHANGED everBorder
        /\ UNCHANGED concVars

ReadBorders ==
    \E offset \in Offsets, limit \in Limits :
        LET r == read_borders(DB, offset, limit) IN
        /\ Commit(r)
        /\ last' = Done("read_borders", r, 0, 0, NoBody, {}, FALSE)
        /\ UNCHANGED <<everBorder, everTask, added, req, sessions>>

ReadBorder ==
    \E border_id \in BorderIds :
        LET r == read_border(DB, border_id) IN
        /\ Commit(r)
        /\ last' = Done("read_border", r, 0, 0, NoBody, {}, FALSE)
        /\ UNCHANGED <<everBorder, everTask, added, req, sessions>>

UpdateTask ==
    \E border_id \in BorderIds, task_id \in TaskIds, body \in TaskUpdate :
        LET r == update_task(DB, border_id, task_id, body) IN
        /\ Commit(r)
        /\ added' = IF r.status = 200
                    THEN [added EXCEPT ![border_id] = Untracked]
                    ELSE added
        /\ last' = Done("update_task", r, 0, task_id, body, {},
                        Foreign(DB, border_id, task_id))
        /\ UNCHANGED <<everBorder, everTask, req, sessions>>

DeleteBorder ==
    \E border_id \in BorderIds :
        LET r == delete_border(DB, border_id) IN
        /\ Commit(r)
        /\ added' = IF r.status = 200
                    THEN [added EXCEPT ![border_id] = Untracked]
                    ELSE added
        /\ last' = Done("delete_border", r, border_id, 0, NoBody,
                        OwnedIds(DB, border_id), FALSE)
        /\ UNCHANGED <<everBorder, everTask, req, sessions>>

DeleteTask ==
    \E border_id \in BorderIds, task_id \in TaskIds :
        LET r == delete_task(DB, border_id, task_id) IN
        /\ Commit(r)
        /\ added' = IF r.status = 200
                    THEN [added EXCEPT ![border_id] = Untracked]
                    ELSE added
        /\ last' = Done("delete_task", r, 0, task_id, NoBody, {},
                        Foreign(DB, border_id, task_id))
        /\ UNCHANGED <<everBorder, everTask, req, sessions>>

Next ==
    \/ CreateBorder
    \/ AddTask
    \/ ReadBorders
    \/ ReadBorder
    \/ UpdateTask
    \/ DeleteBorder
    \/ DeleteTask

Spec == Init /\ [][Next]_vars

\* ------------------------------------------------------------------ concurrent requests
\* The handlers are sync functions, so the server runs each request on a
\* thread of its pool; every request has a session and a connection of its
\* own.  A handler is a sequence of store accesses, and the accesses of two
\* requests interleave.  A SELECT holds no lock once it has returned; the
\* flush and COMMIT of session.commit() are one write transaction.

\* The first statement of each handler.
Entry(op) ==
    CASE op = "create_border" -> "commit"
      [] op = "read_borders" -> "select"
      [] OTHER -> "get_border"

\* What follows a successful session.get(Border, border_id).
AfterBorder(op) ==
    CASE op = "add_task_to_border" -> "commit"
      [] op \in {"read_border", "delete_border"} -> "load_tasks"
      [] OTHER -> "get_task"

Set(r, q) == req' = [req EXCEPT ![r] = q]

Goto(r, pc) == Set(r, [req[r] EXCEPT !.pc = pc])

\* The handler is over: its local objects are gone, its session is not.
Over(q, pc, status) ==
    [Idle EXCEPT !.pc = pc, !.op = q.op, !.sid = q.sid, !.status = status]

Return(r) == Set(r, Over(req[r], "return", 200))

Raise(r, status) == Set(r, Over(req[r], "raise", status))

\* A request arrives: the framework validates its parameters, calls
\* get_session and hands the session to the handler.
Receive(r) ==
    /\ req[r].pc = "idle"
    /\ FreeSessions(r) # {}
    /\ \E op \in {"create_border", "add_task_to_border", "read_borders",
                  "read_border", "update_task", "delete_border", "delete_task"} :
       \E border_id \in ConcBorderIds, task_id \in ConcTaskIds,
          body \in ConcTaskUpdate, limit \in ConcLimits :
          /\ op # "update_task" => body = NoBody
          /\ op # "read_borders" => limit = MaxLimit
          /\ LET sid == get_session(r)
                 q == [Idle EXCEPT !.op = op, !.sid = sid,
                          !.border_id = IF op \in {"create_border", "read_borders"}
                                        THEN 0 ELSE border_id,
                          !.task_id = IF op \in {"update_task", "delete_task"}
                                      THEN task_id ELSE 0,
                          !.body = body]
             IN /\ sessions' = sessions \cup {sid}
                /\ IF limit > MaxLimit
                   THEN Set(r, Over(q, "raise", 422))
                   ELSE Set(r, [q EXCEPT !.pc = Entry(op)])
    /\ UNCHANGED <<border, task, seqVars>>

\* db_border = session.get(Border, border_id), and the 404 when it is None.
GetBorderStep(r) ==
    /\ req[r].pc = "get_border"
    /\ IF GetBorder(DB, req[r].border_id)
       THEN Goto(r, AfterBorder(req[r].op))
       ELSE Raise(r, 404)
    /\ UNCHANGED <<border, task, sessions, seqVars>>

\* task = session.get(Task, task_id), the owner check, and (update_task)
\* sqlmodel_update on the loaded object: the flush writes the row only if
\* an attribute now differs from what was loaded.
GetTaskStep(r) ==
    /\ req[r].pc = "get_task"
    /\ LET q == req[r]
           t == q.task_id
       IN IF ~GetTask(DB, t) \/ task[t].owner_id # q.border_id
          THEN Raise(r, 404)
          ELSE Set(r, [q EXCEPT !.pc = "commit",
                                !.dirty = /\ q.op = "update_task"
                                          /\ SqlmodelUpdate(task[t], q.body) # task[t]])
    /\ UNCHANGED <<border, task, sessions, seqVars>>

\* border.tasks: the lazy load of the relationship.
LoadTasksStep(r) ==
    /\ req[r].pc = "load_tasks"
    /\ LET q == req[r] IN
       IF q.op = "delete_border"
       THEN Set(r, [q EXCEPT !.pc = "commit", !.tasks = OwnedIds(DB, q.border_id)])
       ELSE Return(r)
    /\ UNCHANGED <<border, task, sessions, seqVars>>

\* session.commit(): the pending inserts, updates and deletes, committed.
\* A DELETE that matches no row only warns; an UPDATE that matches no row
\* raises.
CommitStep(r) ==
    /\ req[r].pc = "commit"
    /\ LET q == req[r] IN
       CASE q.op = "create_border" ->
              LET id == NextId(border) IN
              /\ id <= MaxBorders
              /\ border' = border \cup {id}
              /\ task' = task
              /\ Set(r, [q EXCEPT !.pc = "refresh", !.border_id = id])
         [] q.op = "add_task_to_border" ->
              LET id == NextId(DOMAIN task) IN
              /\ id <= MaxTasks
              /\ task' = InsertTask(DB, id, [text |-> NULL, owner_id |-> q.border_id]).task
              /\ border' = border
              /\ Goto(r, "refresh")
         [] q.op = "update_task" ->
              IF ~q.dirty
              THEN /\ Goto(r, "refresh")
                   /\ UNCHANGED <<border, task>>
              ELSE IF q.task_id \in DOMAIN task
              THEN /\ task' = [task EXCEPT ![q.task_id] = SqlmodelUpdate(@, q.body)]
                   /\ border' = border
                   /\ Goto(r, "refresh")
              ELSE /\ Raise(r, 500)
                   /\ UNCHANGED <<border, task>>
         [] q.op = "delete_border" ->
              /\ task' = DeleteTasks(DB, q.tasks).task
              /\ border' = border \ {q.border_id}
              /\ Return(r)
         [] q.op = "delete_task" ->
              /\ task' = DeleteTasks(DB, {q.task_id}).task
              /\ border' = border
              /\ Return(r)
    /\ UNCHANGED <<sessions, seqVars>>

\* session.refresh(obj): reloads the row, and raises when it is gone.
RefreshStep(r) ==
    /\ req[r].pc = "refresh"
    /\ LET q == req[r]
           there == IF q.op = "update_task"
                    THEN GetTask(DB, q.task_id)
                    ELSE GetBorder(DB, q.border_id)
       IN IF ~there THEN Raise(r, 500)
          ELSE IF q.op = "add_task_to_border" THEN Goto(r, "load_tasks")
          ELSE Return(r)
    /\ UNCHANGED <<border, task, sessions, seqVars>>

\* session.exec(select(Border).offset(offset).limit(limit)).all()
SelectStep(r) ==
    /\ req[r].pc = "select"
    /\ Return(r)
    /\ UNCHANGED <<border, task, sessions, seqVars>>

\* A store-level fault at a store access (the database is locked, the
\* connection is lost, the store takes no more rows): the handler does
\* not catch it.
Fault(r) ==
    /\ req[r].pc \in {"get_border", "get_task", "load_tasks", "commit",
                      "refresh", "select"}
    /\ Raise(r, 500)
    /\ UNCHANGED <<border, task, sessions, seqVars>>

\* The handler has returned or raised: get_session resumes after its
\* yield and the response is sent.
Close(r) ==
    /\ req[r].pc \in {"return", "raise"}
    /\ sessions' = SessionExit(sessions, req[r].sid, req[r].pc)
    /\ Set(r, [Idle EXCEPT !.status = req[r].status])
    /\ UNCHANGED <<border, task, seqVars>>

\* The steps of a request the server has accepted.
Handle(r) ==
    \/ GetBorderStep(r)
    \/ GetTaskStep(r)
    \/ LoadTasksStep(r)
    \/ CommitStep(r)
    \/ RefreshStep(r)
    \/ SelectStep(r)
    \/ Fault(r)
    \/ Close(r)

ConcNext == \E r \in Requests : Receive(r) \/ Handle(r)

\* A worker thread that can take a step eventually takes one.
ConcSpec ==
    Init /\ [][ConcNext]_vars /\ \A r \in Requests : WF_vars(Handle(r))

\* ------------------------------------------------------------------ claims
\* C1: in every state reached by completed requests, every stored task's
\* owner_id is the id of a border that exists in the store.
C1_OwnerExists == \A t \in DOMAIN task : task[t].owner_id \in border

\* A border was just deleted while tasks of another border remain.
C1_Witness ==
    /\ last.op = "delete_border" /\ last.status = 200
    /\ last.former # {}
    /\ DOMAIN task # {}

\* C2: create_border returns an id no border ever had and an empty task
\* list; a task id assigned by add_task_to_border is one no task ever had.
C2_FreshIds ==
    /\ \A body \in BorderCreate :
          LET r == create_border(DB, body) IN
          /\ r.body.id \notin everBorder
          /\ r.body.tasks = <<>>
    /\ \A b \in border, body \in TaskCreate :
          LET r == add_task_to_border(DB, b, body) IN
          DOMAIN r.db.task \ DOMAIN task # {}
            /\ (DOMAIN r.db.task \ DOMAIN task) \cap everTask = {}

\* C3: after a successful delete_border(B), B and every task B owned are
\* gone: read_border(B) answers 404, and update_task and delete_task on a
\* former task id of B answer 404 under every border id in the path.
C3_DeleteBorderCascades ==
    (last.op = "delete_border" /\ last.status = 200) =>
        /\ last.border_id \notin border
        /\ read_border(DB, last.border_id).status = 404
        /\ \A t \in last.former :
              /\ t \notin DOMAIN task
              /\ \A b \in 1 .. (MaxBorders + 1) :
                    /\ delete_task(DB, b, t).status = 404
                    /\ \A body \in TaskUpdate :
                          update_task(DB, b, t, body).status = 404

\* A border that owned tasks was just deleted and another border exists.
C3_Witness ==
    /\ last.op = "delete_border" /\ last.status = 200
    /\ last.former # {}
    /\ border # {}

\* C4: for an existing border B and an existing task T of another border,
\* update_task(B, T, body) and delete_task(B, T) give the same 404 'Task
\* not found' answer as for a task id that does not exist, and leave the
\* store as it was.
C4_ForeignTaskIsNotFound ==
    \A B \in border, T \in DOMAIN task :
        task[T].owner_id # B =>
            \A none \in (1 .. (MaxTasks + 1)) \ DOMAIN task :
                /\ delete_task(DB, B, T) = delete_task(DB, B, none)
                /\ delete_task(DB, B, T).status = 404
                /\ delete_task(DB, B, T).detail = "Task not found"
                /\ delete_task(DB, B, T).db = DB
                /\ \A body \in TaskUpdate :
                      /\ update_task(DB, B, T, body) = update_task(DB, B, none, body)
                      /\ update_task(DB, B, T, body).status = 404
                      /\ update_task(DB, B, T, body).detail = "Task not found"
                      /\ update_task(DB, B, T, body).db = DB

\* update_task was just refused for a task that exists under another border.
C4_Witness == last.op = "update_task" /\ last.status = 404 /\ last.foreign

\* C5: a border created empty that received N tasks, none of them updated
\* or deleted since, reads back exactly N tasks, each owned by it and with
\* text unset; and add_task_to_border answers the border's full task list,
\* the new task included.
C5_AddedTasksReadBack ==
    /\ \A b \in border :
          added[b] # Untracked =>
              LET r == read_border(DB, b) IN
              /\ r.status = 200
              /\ Len(r.body.tasks) = added[b]
              /\ \A i \in 1 .. Len(r.body.tasks) :
                    /\ r.body.tasks[i].owner_id = b
                    /\ r.body.tasks[i].text = NULL
    /\ \A b \in border, body \in TaskCreate :
          LET r == add_task_to_border(DB, b, body) IN
          /\ r.status = 200
          /\ r.body = read_border(r.db, b).body.tasks
          /\ \E i \in 1 .. Len(r.body) : r.body[i].id \notin DOMAIN task

\* Two tasks were added to a border, the second just now.
C5_Witness ==
    /\ last.op = "add_task_to_border" /\ last.status = 200
    /\ added[last.border_id] = 2

\* C6: for a task T of border B, update_task(B, T, {text: V}) answers T
\* with text V and read_border(B) then shows T with text V, null included;
\* update_task(B, T, {}) leaves T's text as it was; doing either twice
\* stores what doing it once stores.
C6_UpdateRoundTrip ==
    \A B \in border, T \in DOMAIN task, body \in TaskUpdate :
        task[T].owner_id = B =>
            LET r == update_task(DB, B, T, body)
                read == read_border(r.db, B).body.tasks
            IN /\ r.status = 200
               /\ "text" \in body.fields_set =>
                     /\ r.body.text = body.text
                     /\ \E i \in 1 .. Len(read) :
                           read[i].id = T /\ read[i].text = body.text
               /\ "text" \notin body.fields_set =>
                     /\ r.body.text = task[T].text
                     /\ r.db = DB
               /\ update_task(r.db, B, T, body).db = r.db

\* A text was just overwritten by an explicit null.
C6_Witness ==
    /\ last.op = "update_task" /\ last.status = 200
    /\ last.body = [text |-> NULL, fields_set |-> {"text"}]
    /\ "a" \in {task[t].text : t \in DOMAIN task}

\* The page read_borders is to return: positions offset .. offset+limit-1
\* of the existing borders in ascending id order.
C7_Page(offset, limit) ==
    LET all == SortedSeq(border)
        sel == {i \in 1 .. Len(all) : offset < i /\ i <= offset + limit}
        ids == SortedSeq({all[i] : i \in sel})
    IN [i \in 1 .. Len(ids) |-> [id |-> ids[i], tasks |-> Tasks(DB, ids[i])]]

\* C7: read_borders rejects limit > 100 and offset < 0 with 422 without
\* touching the store; with offset >= 0 and limit <= 100 it answers the
\* borders at positions offset .. offset+limit-1 in ascending id order,
\* each with its own tasks.
C7_ReadBordersContract ==
    \A offset \in Offsets, limit \in Limits :
        LET r == read_borders(DB, offset, limit) IN
        /\ (limit > MaxLimit \/ offset < 0) => r.status = 422
        /\ (offset >= 0 /\ limit <= MaxLimit) =>
              r.status = 200 /\ r.body = C7_Page(offset, limit)

\* A request holds its session from get_session's yield to its exit.
Holding(r) == req[r].pc # "idle"

\* The handler of request r has returned or raised.
Finished(r) == req[r].pc \in {"return", "raise"}

\* The live sessions are exactly those of the requests being served, one
\* each.
C8_Scoped ==
    /\ \A r \in Requests : Holding(r) => req[r].sid \in sessions
    /\ \A r1, r2 \in Requests :
          (r1 # r2 /\ Holding(r1) /\ Holding(r2)) => req[r1].sid # req[r2].sid
    /\ Cardinality(sessions) = Cardinality({r \in Requests : Holding(r)})

\* C8: every request that acquires a session releases it, however its
\* handler ends (a return, a 404, a store-level fault); no session stays
\* open once its request has finished and no session serves two requests.
C8_SessionsReleased ==
    /\ []C8_Scoped
    /\ \A r \in Requests : Holding(r) ~> ~Holding(r)

\* Both requests are over, one answered 404 and one ended by a fault, and
\* no session is open.
C8_Witness ==
    /\ sessions = {}
    /\ \E r1, r2 \in Requests :
          /\ ~Holding(r1) /\ req[r1].status = 404
          /\ ~Holding(r2) /\ req[r2].status = 500

\* C9: once an add_task_to_border(B) and a delete_border(B) that ran at
\* the same time have both finished, no task is left whose owner_id names
\* a border that does not exist.
C9_NoOrphanAfterRace ==
    \A r1, r2 \in Requests :
        ( /\ Finished(r1) /\ req[r1].op = "add_task_to_border"
          /\ Finished(r2) /\ req[r2].op = "delete_border" )
        => \A t \in DOMAIN task : task[t].owner_id \in border

\* C10: a successful update_task changes only the text of its task, a
\* successful delete_task removes only its task, and a request answered
\* 404 changes nothing in the store.
C10_Step ==
    /\ (last'.op = "update_task" /\ last'.status = 200) =>
          /\ border' = border
          /\ DOMAIN task' = DOMAIN task
          /\ \A t \in DOMAIN task :
                /\ task'[t].owner_id = task[t].owner_id
                /\ t # last'.task_id => task'[t] = task[t]
    /\ (last'.op = "delete_task" /\ last'.status = 200) =>
          /\ border' = border
          /\ DOMAIN task' = DOMAIN task \ {last'.task_id}
          /\ \A t \in DOMAIN task' : task'[t] = task[t]
    /\ last'.status = 404 => (border' = border /\ task' = task)

C10_Frame == [][C10_Step]_vars

\* A task was just deleted while another task remains.
C10_Witness ==
    /\ last.op = "delete_task" /\ last.status = 200
    /\ DOMAIN task # {}

====
